---- MODULE Spec2Model ----
(***************************************************************************)
(* miditokeydaemon: the MIDI callback of src/main.rs as a state machine.   *)
(*                                                                         *)
(* The daemon connects one callback to a MIDI input port.  The callback    *)
(* owns (settings, debounce_state) and runs process_midi_message on every  *)
(* incoming message.  The model keeps the debounce map, a clock, whether   *)
(* the callback is still alive (a panic ends it), and an observation of    *)
(* the last callback invocation (what it was given and what it did).  A    *)
(* spawned child is not part of the daemon's state: the Child handle is    *)
(* dropped where it is returned (main.rs:202-206) and the daemon keeps no  *)
(* count, handle or list of the children it started.                       *)
(*                                                                         *)
(* Spec is the daemon; SpecHistory is the daemon with the history of its  *)
(* accepted dispatches kept; SpecFn and SpecScale apply the pure helpers   *)
(* to drawn inputs.                                                        *)
(*                                                                         *)
(* Option<T> is modelled as a sequence: None is <<>> and Some(x) is <<x>>. *)
(* Time is counted in milliseconds.                                        *)
(***************************************************************************)
EXTENDS Integers, Sequences, FiniteSets

VARIABLES
    settings,        \* Settings moved into the callback (main.rs:47,79)
    debounce_state,  \* HashMap<String, Instant> moved into the callback (main.rs:69,79)
    clock,           \* the monotonic clock read by Instant::now() / elapsed()
    alive,           \* FALSE once the callback has panicked
    last,            \* observation of the last callback invocation
    probe,           \* observation of the last call of a pure helper (SpecFn)
    history          \* per rule: its last accepted dispatch, and whether the
                     \* rule was suppressed since (an observation)

vars == <<settings, debounce_state, clock, alive, last, probe, history>>

(***************************************************************************)
(* Option<T>                                                               *)
(***************************************************************************)
None == <<>>

Some(x) == <<x>>

IsSome(o) == o # <<>>

Unwrap(o) == o[1]

(***************************************************************************)
(* Bounds of the model                                                     *)
(***************************************************************************)
\* number of 50 ms slots the clock may advance through
MaxTicks == 4

MaxTime == MaxTicks * 50

\* how far the clock may advance between two callbacks
TickSteps == {50, 150}

\* how long the callback may spend on one rule (keymap playback, spawn)
RuleLags == {0, 50}

(***************************************************************************)
(* f32 arithmetic, as scale_value uses it (main.rs:214-219).               *)
(*                                                                         *)
(* A finite f32 is [sgn, sig, exp] with value sgn * sig * 2^exp, kept      *)
(* canonical: sig is odd, or the value is zero (sig = 0, exp = 0; the sign *)
(* of a zero is kept).  Every operation computes the exact result and      *)
(* rounds it to 24 significant bits, ties to even, as IEEE 754 binary32    *)
(* does.  All intermediate integers stay below 2^31.  Subnormals,          *)
(* infinities and NaN cannot arise from u8 operands and are not modelled.  *)
(***************************************************************************)
Pow2(n) == 2 ^ n

F32Zero == [sgn |-> 1, sig |-> 0, exp |-> 0]

RECURSIVE F32Canon(_, _, _)
F32Canon(s, sig, e) ==
    IF sig = 0 THEN [sgn |-> s, sig |-> 0, exp |-> 0]
    ELSE IF sig % 2 = 0 THEN F32Canon(s, sig \div 2, e + 1)
    ELSE [sgn |-> s, sig |-> sig, exp |-> e]

\* the number of low bits to drop so that sig fits in 24 bits
RECURSIVE F32Excess(_, _)
F32Excess(sig, n) ==
    IF sig \div Pow2(n) >= Pow2(24) THEN F32Excess(sig, n + 1) ELSE n

\* sig * 2^e, plus (when sticky) a nonzero fraction below sig's last bit,
\* rounded to nearest with ties to even
F32Pack(s, sig, e, sticky) ==
    IF sig < Pow2(24) THEN F32Canon(s, sig, e)
    ELSE LET n    == F32Excess(sig, 1)
             q    == sig \div Pow2(n)
             r    == sig % Pow2(n)
             half == Pow2(n - 1)
             up   == r > half \/ (r = half /\ (sticky \/ q % 2 = 1))
         IN  F32Canon(s, q + (IF up THEN 1 ELSE 0), e + n)

\* `x as f32` for a u8
F32FromU8(n) == F32Canon(1, n, 0)

F32Neg(a) == [a EXCEPT !.sgn = -a.sgn]

\* a nonzero value with its significand widened to 27 bits
RECURSIVE F32Widen(_)
F32Widen(a) ==
    IF a.sig < Pow2(26) THEN F32Widen([a EXCEPT !.sig = 2 * a.sig, !.exp = a.exp - 1])
    ELSE a

\* a sum of two zeros is -0 only when both are; a sum that cancels exactly
\* is +0 (round to nearest)
F32Add(x, y) ==
    IF x.sig = 0 /\ y.sig = 0
    THEN [sgn |-> IF x.sgn < 0 /\ y.sgn < 0 THEN -1 ELSE 1, sig |-> 0, exp |-> 0]
    ELSE IF x.sig = 0 THEN y
    ELSE IF y.sig = 0 THEN x
    ELSE LET wx  == F32Widen(x)
             wy  == F32Widen(y)
             xGE == wx.exp > wy.exp \/ (wx.exp = wy.exp /\ wx.sig >= wy.sig)
             a   == IF xGE THEN wx ELSE wy
             b   == IF xGE THEN wy ELSE wx
             d   == a.exp - b.exp
             bs  == IF d > 27 THEN 0 ELSE b.sig \div Pow2(d)
             st  == IF d > 27 THEN TRUE ELSE b.sig % Pow2(d) # 0
         IN  IF a.sgn = b.sgn
             THEN F32Pack(a.sgn, a.sig + bs, a.exp, st)
             ELSE IF a.sig = bs /\ ~st THEN F32Zero
             ELSE F32Pack(a.sgn, a.sig - bs - (IF st THEN 1 ELSE 0), a.exp, st)

F32Sub(x, y) == F32Add(x, F32Neg(y))

\* one operand has at most 12 significant bits (here: a u8); a zero product
\* has the product of the signs
F32Mul(a, b) ==
    IF a.sig = 0 \/ b.sig = 0 THEN [sgn |-> a.sgn * b.sgn, sig |-> 0, exp |-> 0]
    ELSE LET s  == a.sgn * b.sgn
             x  == IF a.sig <= b.sig THEN a.sig ELSE b.sig
             y  == IF a.sig <= b.sig THEN b.sig ELSE a.sig
             e  == a.exp + b.exp
         IN  IF y <= 2147483647 \div x
             THEN F32Pack(s, x * y, e, FALSE)
             ELSE LET hp == x * (y \div 4096)
                      lp == x * (y % 4096)
                  IN  F32Pack(s, hp * 256 + lp \div 16, e + 4, lp % 16 # 0)

\* long division: quotient bits are produced until 26 are significant
RECURSIVE F32DivBits(_, _, _, _)
F32DivBits(q, rem, den, k) ==
    IF q >= Pow2(25) THEN [q |-> q, rem |-> rem, k |-> k]
    ELSE F32DivBits(2 * q + (IF 2 * rem >= den THEN 1 ELSE 0), (2 * rem) % den, den, k + 1)

\* the divisor is not zero (here: 127.0)
F32Div(a, b) ==
    IF a.sig = 0 THEN [sgn |-> a.sgn * b.sgn, sig |-> 0, exp |-> 0]
    ELSE LET r == F32DivBits(a.sig \div b.sig, a.sig % b.sig, b.sig, 0)
         IN  F32Pack(a.sgn * b.sgn, r.q, a.exp - b.exp - r.k, r.rem # 0)

\* f32::round: to the nearest integer, halfway cases away from zero
F32Round(a) ==
    IF a.exp >= 0 THEN a
    ELSE IF -a.exp >= 26 THEN [sgn |-> a.sgn, sig |-> 0, exp |-> 0]
    ELSE LET unit == Pow2(-a.exp)
             ip   == a.sig \div unit
             fr   == a.sig % unit
         IN  F32Canon(a.sgn, ip + (IF 2 * fr >= unit THEN 1 ELSE 0), 0)

\* `x as u8`: a saturating cast
F32ToU8(a) ==
    IF a.sig = 0 \/ a.sgn < 0 THEN 0
    ELSE IF a.exp > 7 THEN 255
    ELSE IF a.sig * Pow2(a.exp) > 255 THEN 255
    ELSE a.sig * Pow2(a.exp)

\* the body of scale_value, on evaluated arguments
ScaleF32(input, min, max) ==
    LET range        == F32Sub(F32FromU8(max), F32FromU8(min))
        scale_factor == F32Div(range, F32FromU8(127))
        output       == F32Add(F32FromU8(min), F32Mul(F32FromU8(input), scale_factor))
    IN  F32ToU8(F32Round(output))

\* faulty variant: the fraction is cut off instead of rounded
scale_value_truncating(input, min, max) == min + (input * (max - min)) \div 127

\* scale_value (main.rs:214-219); the arguments are evaluated once, then used
scale_value(input, min, max) ==
    CHOOSE out \in {ScaleF32(i, lo, hi) : i \in {input}, lo \in {min}, hi \in {max}} : TRUE

(***************************************************************************)
(* Data model (main.rs:10-42)                                              *)
(***************************************************************************)
VelocityScale(min, max) == [min |-> min, max |-> max]

MidiMapVelocityOptions(debounce, scale) == [debounce |-> debounce, scale |-> scale]

MidiMapOptions(velocity) == [velocity |-> velocity]

MidiMap(midi_id, note, keymap, velocity, command, options) ==
    [midi_id |-> midi_id, note |-> note, keymap |-> keymap,
     velocity |-> velocity, command |-> command, options |-> options]

Settings(midi_mapping) == [midi_mapping |-> midi_mapping]

\* Some(MidiMapOptions { velocity: Some(MidiMapVelocityOptions { debounce, scale }) })
Opts(debounce, scale) == Some(MidiMapOptions(Some(MidiMapVelocityOptions(debounce, scale))))

(***************************************************************************)
(* enigo_dsl::eval (mod enigo_dsl, main.rs:8; its file is not part of the  *)
(* sources).  A keymap description either parses and is played, or is      *)
(* malformed and yields an error; the same description always gives the    *)
(* same answer.                                                            *)
(***************************************************************************)
MalformedKeymaps == {"{+SHIFT"}

enigo_dsl_eval(keymap) == IF keymap \in MalformedKeymaps THEN "Err" ELSE "Ok"

(***************************************************************************)
(* The helpers of process_midi_message                                     *)
(***************************************************************************)
\* faulty variant: an event without a velocity byte fails a velocity constraint
match_velocity_strict(velocity, mapping) ==
    IF IsSome(mapping.velocity)
    THEN IF IsSome(velocity) THEN Unwrap(velocity) = Unwrap(mapping.velocity) ELSE FALSE
    ELSE TRUE

\* Option::map_or(true, ...) twice (main.rs:106-110)
match_velocity(velocity, mapping) ==
    IF IsSome(mapping.velocity)
    THEN IF IsSome(velocity) THEN Unwrap(velocity) = Unwrap(mapping.velocity) ELSE TRUE
    ELSE TRUE

\* each `?` returns None from the function when its operand is None
\* (main.rs:114-121)
get_computed_velocity(velocity, mapping) ==
    IF ~IsSome(mapping.options) THEN None
    ELSE IF ~IsSome(Unwrap(mapping.options).velocity) THEN None
    ELSE LET velocity_scale == Unwrap(Unwrap(mapping.options).velocity).scale
         IN  IF IsSome(velocity_scale)
             THEN IF ~IsSome(velocity) THEN None
                  ELSE Some(scale_value(Unwrap(velocity),
                                        Unwrap(velocity_scale).min,
                                        Unwrap(velocity_scale).max))
             ELSE velocity

DefaultDebounce == 200

\* faulty variant: the configured window is ignored
get_debounce_duration_fixed(mapping) == DefaultDebounce

\* Duration::from_millis of the configured value, 200 by default
\* (main.rs:123-132)
get_debounce_duration(mapping) ==
    LET o == mapping.options
        v == IF IsSome(o) THEN Unwrap(o).velocity ELSE None
        d == IF IsSome(v) THEN Unwrap(v).debounce ELSE None
    IN  IF IsSome(d) THEN Unwrap(d) ELSE DefaultDebounce

\* format!("{}", n) for an unsigned integer: its decimal digits
Digits == <<"0", "1", "2", "3", "4", "5", "6", "7", "8", "9">>

RECURSIVE format(_)
format(n) ==
    IF n < 10 THEN <<Digits[n + 1]>>
    ELSE Append(format(n \div 10), Digits[(n % 10) + 1])

\* the mapping test of the loop (main.rs:147-149)
mapping_match(midi_id, note, device_velocity, mapping) ==
    /\ midi_id = mapping.midi_id
    /\ note = mapping.note
    /\ match_velocity(device_velocity, mapping)

(***************************************************************************)
(* HashMap<String, Instant>                                                *)
(***************************************************************************)
EmptyMap == [k \in {} |-> 0]

contains_key(map, key) == key \in DOMAIN map

\* faulty variant: the insert forgets every other key
insert_alone(map, key, value) == [k \in {key} |-> value]

insert(map, key, value) ==
    [k \in (DOMAIN map) \cup {key} |-> IF k = key THEN value ELSE map[k]]

\* faulty variant: no time is seen to pass
elapsed_frozen(instant, now) == 0

\* Instant::elapsed at time `now`
elapsed(instant, now) == IF now >= instant THEN now - instant ELSE 0

(***************************************************************************)
(* process_midi_message (main.rs:137-211)                                  *)
(*                                                                         *)
(* What the callback is given besides its own data: the message, the clock *)
(* (`now` at entry; `lag` more from rule `lagAt` on, the time the earlier  *)
(* rules' keymap playback and spawns took), and the operating system's     *)
(* answer to spawn (`failAt`: the rule whose spawn fails, 0 for none).     *)
(*                                                                         *)
(* Each rule visited leaves one entry in the trace: whether it matched,    *)
(* what became of its keymap and of its command, and for a spawn the       *)
(* argv and the MIDI_VELOCITY override handed to the child, the debounce   *)
(* map before (pre) and after (post) the visit, and the steps the visit    *)
(* took in the order it took them: "keymap" (enigo_dsl::eval), "check"     *)
(* (the debounce test), "insert" (the entry written), "spawn".             *)
(***************************************************************************)
Entry(i, now, matched, keymap, command, window, env, argv, pre, post, steps) ==
    [rule |-> i, at |-> now, matched |-> matched, keymap |-> keymap,
     command |-> command, window |-> window, env |-> env, argv |-> argv,
     pre |-> pre, post |-> post, steps |-> steps]

\* message[0], message[1], message.get(2).cloned() (main.rs:142); indexing
\* past the end of the slice panics: None here
decode(message) ==
    IF Len(message) < 2 THEN None
    ELSE Some([midi_id |-> message[1], note |-> message[2],
               device_velocity |-> IF Len(message) >= 3 THEN Some(message[3]) ELSE None])

\* the keymap step (main.rs:161-167): an error is logged, nothing else
keymap_step(mapping) ==
    IF IsSome(mapping.keymap)
    THEN IF enigo_dsl_eval(Unwrap(mapping.keymap)) = "Err" THEN "error" ELSE "played"
    ELSE "none"

\* faulty variant: the empty command is treated like any other
is_empty_never(command_str) == FALSE

\* command_str.is_empty() (main.rs:172)
is_empty(command_str) == command_str = ""

\* faulty variant: the lookup never finds the command's key
state_key_lost(state, command_str) == None

\* state_key: the key of debounce_state equal to the command (main.rs:178-181)
state_key(state, command_str) ==
    IF contains_key(state, command_str) THEN Some(command_str) ELSE None

\* faulty variant: a check exactly one window after the dispatch is still suppressed
debouncing_inclusive(state, command_str, debounce_duration, now) ==
    LET key == state_key(state, command_str)
    IN  /\ IsSome(key)
        /\ elapsed(state[Unwrap(key)], now) <= debounce_duration

\* the debounce test (main.rs:183-189): TRUE when the command is skipped
debouncing(state, command_str, debounce_duration, now) ==
    LET key == state_key(state, command_str)
    IN  /\ IsSome(key)
        /\ elapsed(state[Unwrap(key)], now) < debounce_duration

\* faulty variant: a suppressed check restarts the command's window
skip_debounced_refreshing(state, command_str, now) == insert(state, command_str, now)

\* the suppressed branch (main.rs:184-189) logs and continues: the map is
\* left as it is
skip_debounced(state, command_str, now) == state

\* debounce_state.insert(command_str.to_string(), Instant::now()) (main.rs:190)
record_dispatch(state, command_str, now) == insert(state, command_str, now)

\* faulty variant: MIDI_VELOCITY is exported even without a computed velocity
spawn_env_always(computed_velocity) ==
    Some(format(IF IsSome(computed_velocity) THEN Unwrap(computed_velocity) ELSE 0))

\* the MIDI_VELOCITY override of the child's environment (main.rs:195-200)
spawn_env(computed_velocity) ==
    IF IsSome(computed_velocity) THEN Some(format(Unwrap(computed_velocity))) ELSE None

\* Command::new("sh").arg("-c").arg(command_str) (main.rs:193,202-204)
spawn_argv(command_str) == <<"sh", "-c", command_str>>

\* .spawn().expect(&err_message) (main.rs:205-206): an Err panics; on Ok the
\* Child is dropped at the end of the statement, neither waited for nor
\* killed, and the handler goes on
spawn_expect(spawn_failed) == IF spawn_failed THEN "panic" ELSE "spawned"

\* the steps of the keymap block (main.rs:161-167), which no condition but
\* the presence of a keymap guards
keymap_steps(keymap) == IF keymap = "none" THEN <<>> ELSE <<"keymap">>

\* the keymap block (main.rs:161-167) is followed by the command block
\* (main.rs:169-207)
keymap_then_command(keymap_block, command_block) == keymap_block \o command_block

\* one iteration of the loop over settings.midi_mapping (main.rs:146-208)
visit_mapping(mapping, i, ev, state, now, spawn_failed) ==
    IF ~mapping_match(ev.midi_id, ev.note, ev.device_velocity, mapping)
    THEN [state |-> state, panic |-> FALSE,
          entry |-> Entry(i, now, FALSE, "none", "none", None, None, <<>>, state, state,
                          <<>>)]
    ELSE LET keymap == keymap_step(mapping)
         IN  IF ~IsSome(mapping.command)
             THEN [state |-> state, panic |-> FALSE,
                   entry |-> Entry(i, now, TRUE, keymap, "none", None, None, <<>>,
                                   state, state,
                                   keymap_then_command(keymap_steps(keymap), <<>>))]
             ELSE LET command_str == Unwrap(mapping.command)
                      debounce_duration == get_debounce_duration(mapping)
                  IN  IF is_empty(command_str)
                      THEN [state |-> state, panic |-> FALSE,
                            entry |-> Entry(i, now, TRUE, keymap, "empty", None, None,
                                            <<>>, state, state,
                                            keymap_then_command(keymap_steps(keymap),
                                                                <<>>))]
                      ELSE IF debouncing(state, command_str, debounce_duration, now)
                      THEN [state |-> skip_debounced(state, command_str, now),
                            panic |-> FALSE,
                            entry |-> Entry(i, now, TRUE, keymap, "debounced",
                                            Some(debounce_duration), None, <<>>,
                                            state,
                                            skip_debounced(state, command_str, now),
                                            keymap_then_command(keymap_steps(keymap),
                                                                <<"check">>))]
                      ELSE LET recorded == record_dispatch(state, command_str, now)
                               computed_velocity ==
                                   get_computed_velocity(ev.device_velocity, mapping)
                               outcome == spawn_expect(spawn_failed)
                           IN  [state |-> recorded,
                                panic |-> outcome = "panic",
                                entry |-> Entry(i, now, TRUE, keymap,
                                                IF outcome = "panic" THEN "spawn_failed"
                                                                     ELSE "spawned",
                                                Some(debounce_duration),
                                                spawn_env(computed_velocity),
                                                spawn_argv(command_str),
                                                state, recorded,
                                                keymap_then_command(
                                                    keymap_steps(keymap),
                                                    <<"check", "insert", "spawn">>))]

\* where the loop goes after rule i: always on to the next rule
next_mapping(i, entry) == i + 1

\* the loop from rule i on; r is rule i's visit, evaluated once
RECURSIVE for_each_mapping(_, _, _, _, _, _, _, _, _)
for_each_mapping(i, midi_mapping, ev, state, trace, now, lagAt, lag, failAt) ==
    IF i > Len(midi_mapping)
    THEN [result |-> "Ok", state |-> state, trace |-> trace]
    ELSE CHOOSE out \in
           {IF r.panic
            THEN [result |-> "Panic", state |-> r.state, trace |-> Append(trace, r.entry)]
            ELSE for_each_mapping(next_mapping(i, r.entry), midi_mapping, ev, r.state,
                                  Append(trace, r.entry), now, lagAt, lag, failAt) :
            r \in {visit_mapping(midi_mapping[i], i, ev, state,
                                 IF i >= lagAt THEN now + lag ELSE now, failAt = i)}} : TRUE

process_midi_message(message, s, state, now, lagAt, lag, failAt) ==
    LET d == decode(message)
    IN  IF ~IsSome(d)
        THEN [result |-> "Panic", state |-> state, trace |-> <<>>]
        ELSE for_each_mapping(1, s.midi_mapping, Unwrap(d), state, <<>>,
                              now, lagAt, lag, failAt)

(***************************************************************************)
(* The configurations and messages explored                                *)
(***************************************************************************)
Table1 == <<
    MidiMap(144, 60, None, None, Some("echo hi"), Opts(Some(200), None)),
    MidiMap(144, 60, Some("a"), Some(100), Some(""), None),
    MidiMap(144, 60, None, Some(100), Some("notify"),
            Opts(None, Some(VelocityScale(0, 200)))) >>

Table2 == <<
    MidiMap(144, 60, None, None, Some("echo hi"), Opts(Some(100), None)),
    MidiMap(144, 61, Some("a"), None, Some("echo hi"), None),
    MidiMap(144, 60, None, None, Some("echo hi"),
            Opts(Some(50), Some(VelocityScale(200, 0)))) >>

Table3 == <<
    MidiMap(144, 60, Some("{+SHIFT"), None, Some("echo hi"), Some(MidiMapOptions(None))),
    MidiMap(128, 60, None, None, None, None),
    MidiMap(144, 60, Some("a"), Some(100), Some("notify"), Opts(None, None)) >>

Table4 == <<
    MidiMap(144, 60, Some("a"), None, None, None),
    MidiMap(144, 61, Some("{+SHIFT"), Some(100), Some(""),
            Opts(Some(50), Some(VelocityScale(10, 20)))),
    MidiMap(144, 61, None, None, Some("notify"), Opts(Some(0), None)) >>

Tables == {Table1, Table2, Table3, Table4}

\* 248 is the one-byte MIDI timing clock message
Messages == {<<>>, <<248>>, <<144, 60>>, <<144, 60, 100>>, <<144, 60, 99>>,
             <<144, 61, 100>>, <<128, 60, 100>>}

NoCall == [op |-> "none"]

NoEvent == [message |-> <<>>, before |-> EmptyMap, start |-> 0,
            result |-> "none", trace |-> <<>>, history |-> <<>>]

\* a rule none of whose dispatches was accepted yet
NoDispatch == [at |-> None, suppressed |-> FALSE]

\* what the visits of one invocation add to the history of the rules: an
\* accepted dispatch (the check passed, main.rs:190) restarts the rule's
\* entry, a suppression (main.rs:184-189) is noted
note_visits(h, trace) ==
    [i \in 1..Len(h) |->
        IF i > Len(trace) THEN h[i]
        ELSE IF trace[i].command \in {"spawned", "spawn_failed"}
             THEN [at |-> Some(trace[i].at), suppressed |-> FALSE]
        ELSE IF trace[i].command = "debounced"
             THEN [h[i] EXCEPT !.suppressed = TRUE]
        ELSE h[i]]

(***************************************************************************)
(* The daemon                                                              *)
(***************************************************************************)
\* main (main.rs:44-88): settings loaded, debounce_state empty, callback
\* connected
Init ==
    /\ settings \in {Settings(t) : t \in Tables}
    /\ debounce_state = EmptyMap
    /\ clock = 0
    /\ alive = TRUE
    /\ history = [i \in 1..Len(settings.midi_mapping) |-> NoDispatch]
    /\ last = NoEvent
    /\ probe = NoCall

\* faulty variant: an invocation works on the map as it was when the previous
\* invocation started, as if the two had overlapped
callback_data_stale(own, snapshot) == snapshot

\* the map an invocation works on: (settings, debounce_state) is moved into
\* the connection once (main.rs:79) and lent to each invocation of the
\* closure by exclusive reference (main.rs:75), so it is the map the
\* previous invocation left
callback_data(own, snapshot) == own

\* time passes between callbacks (the main loop only sleeps, main.rs:85-87)
Tick(d) ==
    /\ clock + d <= MaxTime
    /\ clock' = clock + d
    /\ UNCHANGED <<settings, debounce_state, alive, last, probe, history>>

\* the callback closure (main.rs:75-78), run by the MIDI driver for one
\* message, one invocation at a time; the Result is dropped (`let _ =`), and
\* a panic inside the callback unwinds the driver's thread, so that no later
\* message reaches process_midi_message; data is the map lent to the
\* invocation and r the outcome of the handler, each evaluated once
OnMidiMessage(message, lagAt, lag, failAt) ==
    /\ alive
    /\ clock + lag <= MaxTime
    /\ \E data \in {callback_data(debounce_state, last.before)} :
       \E r \in {process_midi_message(message, settings, data, clock,
                                       lagAt, lag, failAt)} :
           /\ debounce_state' = r.state
           /\ alive' = (r.result = "Ok")
           /\ last' = [message |-> message, before |-> data,
                       start |-> clock, result |-> r.result, trace |-> r.trace,
                       history |-> history]
    /\ clock' = clock + lag
    /\ UNCHANGED <<settings, probe, history>>

\* what one callback invocation meets: nothing special, a lag before one
\* rule, or a spawn that fails at one rule
Environments(n) ==
    {[lagAt |-> 1, lag |-> 0, failAt |-> 0]}
    \cup {[lagAt |-> i, lag |-> l, failAt |-> 0] : i \in 1..n, l \in RuleLags \ {0}}
    \cup {[lagAt |-> 1, lag |-> 0, failAt |-> i] : i \in 1..n}

Next ==
    \/ \E d \in TickSteps : Tick(d)
    \/ \E message \in Messages, e \in Environments(Len(settings.midi_mapping)) :
          OnMidiMessage(message, e.lagAt, e.lag, e.failAt)

Spec == Init /\ [][Next]_vars

(***************************************************************************)
(* The daemon with the history of its dispatches kept: SpecHistory runs    *)
(* the same callback and notes, per rule, the last accepted dispatch and   *)
(* the suppressions since.                                                 *)
(***************************************************************************)
\* two rules that share a command under different windows
Table5 == <<
    MidiMap(144, 60, None, None, Some("echo hi"), Opts(Some(100), None)),
    MidiMap(144, 60, None, Some(100), Some("echo hi"), Opts(Some(50), None)) >>

HistoryTables == {Table1, Table5}

HistoryInit ==
    /\ settings \in {Settings(t) : t \in HistoryTables}
    /\ debounce_state = EmptyMap
    /\ clock = 0
    /\ alive = TRUE
    /\ last = NoEvent
    /\ probe = NoCall
    /\ history = [i \in 1..Len(settings.midi_mapping) |-> NoDispatch]

\* the callback closure (main.rs:75-78) as in OnMidiMessage, with its visits
\* noted in the history
OnMidiMessageNoted(message, lagAt, lag, failAt) ==
    /\ alive
    /\ clock + lag <= MaxTime
    /\ \E data \in {callback_data(debounce_state, last.before)} :
       \E r \in {process_midi_message(message, settings, data, clock,
                                       lagAt, lag, failAt)} :
           /\ debounce_state' = r.state
           /\ alive' = (r.result = "Ok")
           /\ last' = [message |-> message, before |-> data,
                       start |-> clock, result |-> r.result, trace |-> r.trace,
                       history |-> history]
           /\ history' = note_visits(history, r.trace)
    /\ clock' = clock + lag
    /\ UNCHANGED <<settings, probe>>

HistoryNext ==
    \/ \E d \in TickSteps : Tick(d)
    \/ \E message \in Messages, e \in Environments(Len(settings.midi_mapping)) :
          OnMidiMessageNoted(message, e.lagAt, e.lag, e.failAt)

SpecHistory == HistoryInit /\ [][HistoryNext]_vars

(***************************************************************************)
(* The pure helpers on their own: SpecFn draws a rule and an event and     *)
(* applies one helper to them.                                             *)
(***************************************************************************)
FnOptions ==
    {None, Some(MidiMapOptions(None))}
    \cup {Opts(d, sc) : d \in {None, Some(0), Some(100), Some(200)},
                        sc \in {None, Some(VelocityScale(0, 200)),
                                Some(VelocityScale(200, 0)),
                                Some(VelocityScale(10, 20))}}

FnRules ==
    {MidiMap(m, n, None, v, None, o) :
        m \in {144, 128}, n \in {60, 61}, v \in {None, Some(0), Some(100)},
        o \in FnOptions}

FnVelocities == {None, Some(0), Some(64), Some(100), Some(127)}

FnInit ==
    /\ settings = Settings(<<>>)
    /\ debounce_state = EmptyMap
    /\ clock = 0
    /\ alive = TRUE
    /\ history = [i \in 1..Len(settings.midi_mapping) |-> NoDispatch]
    /\ last = NoEvent
    /\ probe \in {[op |-> "input", mapping |-> r, midi_id |-> m, note |-> n,
                   velocity |-> v, out |-> None] :
                    r \in FnRules, m \in {144, 128}, n \in {60, 61}, v \in FnVelocities}

CallMatch ==
    /\ probe.op = "input"
    /\ probe' = [probe EXCEPT !.op = "mapping_match",
                    !.out = Some(mapping_match(probe.midi_id, probe.note,
                                               probe.velocity, probe.mapping))]
    /\ UNCHANGED <<settings, debounce_state, clock, alive, last, history>>

CallComputedVelocity ==
    /\ probe.op = "input"
    /\ probe' = [probe EXCEPT !.op = "get_computed_velocity",
                    !.out = get_computed_velocity(probe.velocity, probe.mapping)]
    /\ UNCHANGED <<settings, debounce_state, clock, alive, last, history>>

CallDebounceDuration ==
    /\ probe.op = "input"
    /\ probe' = [probe EXCEPT !.op = "get_debounce_duration",
                    !.out = Some(get_debounce_duration(probe.mapping))]
    /\ UNCHANGED <<settings, debounce_state, clock, alive, last, history>>

FnNext == CallMatch \/ CallComputedVelocity \/ CallDebounceDuration

SpecFn == FnInit /\ [][FnNext]_vars

(***************************************************************************)
(* scale_value on its own: SpecScale draws a scale and sweeps the raw      *)
(* velocity over the MIDI data-byte range, keeping the previous output.    *)
(***************************************************************************)
\* the values a MIDI data byte takes
RawVelocities == 0..127

\* the values of min and max explored
ScaleBytes == {0, 1, 2, 3, 5, 10, 20, 32, 50, 64, 90, 100, 126, 127, 128, 129,
               150, 200, 253, 254, 255}

ScaleInit ==
    /\ settings = Settings(<<>>)
    /\ debounce_state = EmptyMap
    /\ clock = 0
    /\ alive = TRUE
    /\ history = [i \in 1..Len(settings.midi_mapping) |-> NoDispatch]
    /\ last = NoEvent
    /\ probe \in {[op |-> "scale_input", min |-> lo, max |-> hi, input |-> 0,
                   out |-> None, prev |-> None] : lo \in ScaleBytes, hi \in ScaleBytes}

CallScaleValue ==
    /\ probe.op = "scale_input"
    /\ probe' = [probe EXCEPT !.op = "scale_value",
                    !.out = Some(scale_value(probe.input, probe.min, probe.max))]
    /\ UNCHANGED <<settings, debounce_state, clock, alive, last, history>>

\* the next raw velocity, under the same scale
NextRawVelocity ==
    /\ probe.op = "scale_value"
    /\ probe.input + 1 \in RawVelocities
    /\ probe' = [probe EXCEPT !.op = "scale_input", !.input = probe.input + 1,
                    !.out = None, !.prev = probe.out]
    /\ UNCHANGED <<settings, debounce_state, clock, alive, last, history>>

ScaleNext == CallScaleValue \/ NextRawVelocity

SpecScale == ScaleInit /\ [][ScaleNext]_vars

(***************************************************************************)
(* Reading the observation of the last callback invocation                 *)
(***************************************************************************)
Rules == settings.midi_mapping

Visits == 1..Len(last.trace)

\* the third byte of the last message, if it had one
RawVelocity == IF Len(last.message) >= 3 THEN Some(last.message[3]) ELSE None

\* the rule's spawn was attempted
Dispatched(e) == e.command \in {"spawned", "spawn_failed"}

\* the rule's command reached the debounce check
Checked(e) == e.command \in {"debounced", "spawned", "spawn_failed"}

CommandOf(e) == Unwrap(Rules[e.rule].command)

HasCommand(rule) == IsSome(rule.command) /\ Unwrap(rule.command) # ""

\* the rule accepts the last message, as section 4.1 of the specification
\* states it
Accepts(rule) ==
    /\ Len(last.message) >= 2
    /\ last.message[1] = rule.midi_id
    /\ last.message[2] = rule.note
    /\ \/ rule.velocity = None
       \/ Len(last.message) < 3
       \/ last.message[3] = Unwrap(rule.velocity)

\* the visits of one invocation hand the debounce map on to each other, from
\* the map the callback was given to the map it left
TraceChained ==
    /\ \A k \in Visits :
          last.trace[k].pre = IF k = 1 THEN last.before ELSE last.trace[k - 1].post
    /\ debounce_state = IF last.trace = <<>> THEN last.before
                        ELSE last.trace[Len(last.trace)].post

DigitValue(c) == CHOOSE d \in 0..9 : Digits[d + 1] = c

RECURSIVE DecimalValue(_)
DecimalValue(str) ==
    IF str = <<>> THEN 0
    ELSE 10 * DecimalValue(SubSeq(str, 1, Len(str) - 1)) + DigitValue(str[Len(str)])

\* str is the decimal string of n: digits only, no leading zero, value n
IsDecimalOf(str, n) ==
    /\ Len(str) >= 1
    /\ \A k \in 1..Len(str) : \E d \in 0..9 : Digits[d + 1] = str[k]
    /\ Len(str) > 1 => str[1] # "0"
    /\ DecimalValue(str) = n

HasScale(mapping) ==
    /\ IsSome(mapping.options)
    /\ IsSome(Unwrap(mapping.options).velocity)
    /\ IsSome(Unwrap(Unwrap(mapping.options).velocity).scale)

(***************************************************************************)
(* C1.  A message of fewer than 2 bytes is a recoverable decode error: the *)
(* callback does not panic, no keymap fires and no command is spawned, the *)
(* debounce state is unchanged, and later messages are still processed.    *)
(* The code indexes message[0] and message[1] unchecked (main.rs:142).     *)
(***************************************************************************)
C1_ShortMessageIsRecoverable ==
    (last.result # "none" /\ Len(last.message) < 2) =>
        /\ last.result = "Ok"
        /\ alive
        /\ \A k \in Visits : last.trace[k].keymap = "none" /\ ~Dispatched(last.trace[k])
        /\ debounce_state = last.before

(***************************************************************************)
(* C2.  When the spawn of a matching rule's command fails, the failure is  *)
(* reported and nothing else changes: the remaining rules of the event are *)
(* still evaluated, and the callback stays alive for later events.         *)
(* The code calls .expect on the spawn result (main.rs:205-206).           *)
(***************************************************************************)
C2_SpawnFailureIsRecoverable ==
    (\E k \in Visits : last.trace[k].command = "spawn_failed") =>
        /\ last.result = "Ok"
        /\ alive
        /\ Len(last.trace) = Len(Rules)

(***************************************************************************)
(* C3.  get_computed_velocity returns the raw velocity unchanged for every *)
(* rule without a scale option (options absent, options.velocity absent or *)
(* scale absent); with a scale it scales a present raw velocity and yields *)
(* None for an absent one.                                                 *)
(* The `?` on options and on options.velocity returns None instead         *)
(* (main.rs:115).                                                          *)
(***************************************************************************)
C3_NoScaleKeepsRawVelocity ==
    probe.op = "get_computed_velocity" =>
        /\ ~HasScale(probe.mapping) => probe.out = probe.velocity
        /\ (HasScale(probe.mapping) /\ ~IsSome(probe.velocity)) => probe.out = None
        /\ (HasScale(probe.mapping) /\ IsSome(probe.velocity)) =>
              LET scale == Unwrap(Unwrap(Unwrap(probe.mapping.options).velocity).scale)
              IN  probe.out = Some(scale_value(Unwrap(probe.velocity), scale.min, scale.max))

(***************************************************************************)
(* C4.  Every spawn is `sh -c <the rule's command string>`, and its        *)
(* environment overrides MIDI_VELOCITY with the decimal string of the      *)
(* computed velocity exactly when the computed velocity is present.        *)
(***************************************************************************)
C4_SpawnEnvironment ==
    \A k \in Visits :
        LET e  == last.trace[k]
            cv == get_computed_velocity(RawVelocity, Rules[e.rule])
        IN  Dispatched(e) =>
                /\ IsSome(e.env) <=> IsSome(cv)
                /\ IsSome(e.env) => IsDecimalOf(Unwrap(e.env), Unwrap(cv))
                /\ e.argv = <<"sh", "-c", Unwrap(Rules[e.rule].command)>>

\* one event spawned a command with a three-digit MIDI_VELOCITY and another
\* command with no override
C4_Witness ==
    /\ \E k \in Visits : /\ last.trace[k].command = "spawned"
                         /\ IsSome(last.trace[k].env)
                         /\ Len(Unwrap(last.trace[k].env)) = 3
    /\ \E k \in Visits : /\ last.trace[k].command = "spawned"
                         /\ ~IsSome(last.trace[k].env)

(***************************************************************************)
(* C5.  A rule accepts an event iff midi_id and note are equal and the     *)
(* rule has no velocity, or the event has none, or the two are equal; and  *)
(* matching alone leaves the debounce state as it was.                     *)
(***************************************************************************)
C5_MatcherIff ==
    \A k \in Visits :
        LET e == last.trace[k]
        IN  /\ e.matched <=> Accepts(Rules[e.rule])
            /\ ~Dispatched(e) => e.post = e.pre

\* an event without a velocity byte matched a rule that constrains the
\* velocity, and no command of the event was dispatched
C5_Witness ==
    /\ Len(last.message) = 2
    /\ \E k \in Visits : /\ last.trace[k].matched
                         /\ IsSome(Rules[last.trace[k].rule].velocity)
    /\ \E k \in Visits : ~last.trace[k].matched
    /\ \A k \in Visits : ~Dispatched(last.trace[k])
    /\ last.before # EmptyMap

(***************************************************************************)
(* C6.  A debounce check of a command with no entry dispatches and records *)
(* its time now1; the next check of that command, at now2 with window W,   *)
(* is suppressed when now2 - now1 < W and dispatches when now2 - now1 >= W *)
(* (so the same event 50 ms after a dispatch, under a 200 ms window, does  *)
(* not spawn again).                                                       *)
(***************************************************************************)
C6_TwoChecks ==
    /\ TraceChained
    /\ \A k \in Visits :
        LET e == last.trace[k]
        IN  /\ (e.matched /\ HasCommand(Rules[e.rule])) => Checked(e)
            /\ Checked(e) =>
                LET c == CommandOf(e)
                    W == Unwrap(e.window)
                IN  /\ c \notin DOMAIN e.pre => Dispatched(e)
                    /\ Dispatched(e) => (c \in DOMAIN e.post /\ e.post[c] = e.at)
                    /\ (c \in DOMAIN e.pre /\ e.at - e.pre[c] < W) =>
                          (e.command = "debounced" /\ e.post = e.pre)
                    /\ (c \in DOMAIN e.pre /\ e.at - e.pre[c] >= W) => Dispatched(e)

\* the event [144, 60, 100] arrives 50 ms after its command was dispatched
\* and the rule's 200 ms window suppresses it
C6_Witness ==
    /\ last.message = <<144, 60, 100>>
    /\ \E k \in Visits :
        LET e == last.trace[k]
        IN  /\ e.command = "debounced"
            /\ e.window = Some(200)
            /\ IsSome(Rules[e.rule].options)
            /\ e.at - e.pre[CommandOf(e)] = 50

(***************************************************************************)
(* C7.  The debounce state is keyed by the command string: its keys are    *)
(* command strings of the table, a check is decided by the command's own   *)
(* entry alone, a dispatch by one rule suppresses another rule with the    *)
(* same command string inside that rule's window, and no visit changes the *)
(* entry of another command string.                                        *)
(***************************************************************************)
C7_KeyedByCommandText ==
    /\ DOMAIN debounce_state \subseteq
          {Unwrap(Rules[i].command) : i \in {j \in 1..Len(Rules) : IsSome(Rules[j].command)}}
    /\ \A k \in Visits :
        LET e == last.trace[k]
        IN  /\ ~Checked(e) => e.post = e.pre
            /\ Checked(e) =>
                LET c == CommandOf(e)
                IN  /\ DOMAIN e.post = DOMAIN e.pre \cup
                                         (IF Dispatched(e) THEN {c} ELSE {})
                    /\ \A other \in DOMAIN e.pre \ {c} : e.post[other] = e.pre[other]
                    /\ e.command = "debounced" <=>
                          (c \in DOMAIN e.pre /\ e.at - e.pre[c] < Unwrap(e.window))
    /\ \A k1 \in Visits, k2 \in Visits :
        LET e1 == last.trace[k1]
            e2 == last.trace[k2]
        IN  (/\ k1 < k2
             /\ Dispatched(e1)
             /\ e2.matched
             /\ HasCommand(Rules[e2.rule])
             /\ CommandOf(e2) = CommandOf(e1)
             /\ \A k \in (k1 + 1)..(k2 - 1) : ~Dispatched(last.trace[k]))
            => /\ Checked(e2)
               /\ e2.pre[CommandOf(e2)] = e1.at
               /\ e2.at - e1.at < Unwrap(e2.window) => e2.command = "debounced"

\* in one event a rule dispatched a command and a later, different rule with
\* the same command string was suppressed by that entry
C7_Witness ==
    \E k1 \in Visits, k2 \in Visits :
        /\ k1 < k2
        /\ last.trace[k1].command = "spawned"
        /\ last.trace[k2].command = "debounced"
        /\ last.trace[k1].rule # last.trace[k2].rule
        /\ CommandOf(last.trace[k1]) = CommandOf(last.trace[k2])
        /\ CommandOf(last.trace[k1]) \notin DOMAIN last.before

(***************************************************************************)
(* C8.  A matching rule whose command is the empty string spawns nothing   *)
(* and leaves the debounce state untouched; the empty string is never a    *)
(* key of the debounce state.                                              *)
(***************************************************************************)
C8_EmptyCommandNeverTracked ==
    /\ "" \notin DOMAIN debounce_state
    /\ \A k \in Visits :
        LET e == last.trace[k]
        IN  (e.matched /\ Rules[e.rule].command = Some("")) =>
                /\ ~Checked(e)
                /\ e.argv = <<>>
                /\ e.env = None
                /\ e.post = e.pre
                /\ "" \notin DOMAIN e.post

\* a rule with an empty command matched while the debounce state held entries
C8_Witness ==
    /\ \E k \in Visits : /\ last.trace[k].matched
                         /\ Rules[last.trace[k].rule].command = Some("")
    /\ debounce_state # EmptyMap

(***************************************************************************)
(* C9.  Rules are visited first to last with no early exit: every rule     *)
(* that matches the event fires (its keymap is evaluated, its non-empty    *)
(* command is dispatched unless debounced), in table order, whatever       *)
(* happened at the earlier rules.                                          *)
(* A failed spawn panics (C2) and ends the loop before the later rules.    *)
(***************************************************************************)
C9_EveryMatchingRuleFires ==
    (last.result # "none" /\ Len(last.message) >= 2) =>
        \A i \in 1..Len(Rules) :
            Accepts(Rules[i]) =>
                /\ i \in Visits
                /\ last.trace[i].rule = i
                /\ last.trace[i].matched
                /\ IsSome(Rules[i].keymap) => last.trace[i].keymap \in {"played", "error"}
                /\ HasCommand(Rules[i]) => Checked(last.trace[i])

(***************************************************************************)
(* C10.  When the keymap of a matching rule fails to evaluate, the event   *)
(* goes on: every later matching rule still has its command dispatched,    *)
(* subject only to its own debounce check, and the keymap error changes    *)
(* nothing in the debounce state.                                          *)
(* A spawn that fails at the rule or after it panics (C2) and ends the     *)
(* event before the later rules.                                           *)
(***************************************************************************)
C10_KeymapErrorDoesNotStopLaterRules ==
    \A k \in Visits :
        last.trace[k].keymap = "error" =>
            /\ \A i \in (k + 1)..Len(Rules) :
                  (Accepts(Rules[i]) /\ HasCommand(Rules[i])) =>
                      (i \in Visits /\ Checked(last.trace[i]))
            /\ ~Dispatched(last.trace[k]) => last.trace[k].post = last.trace[k].pre

(***************************************************************************)
(* C11.  The keymap evaluator fails closed: when the keymap of a matching  *)
(* rule fails to evaluate, that rule produces no action for the event: its *)
(* command does not reach the debounce check, is not spawned, and no       *)
(* debounce entry is recorded for it.                                      *)
(* The code logs the error and falls through to the rule's command         *)
(* (main.rs:163-169).                                                      *)
(***************************************************************************)
C11_KeymapErrorSkipsTheRule ==
    \A k \in Visits :
        LET e == last.trace[k]
        IN  e.keymap = "error" =>
                /\ ~Checked(e)
                /\ e.argv = <<>>
                /\ e.post = e.pre

(***************************************************************************)
(* C12.  For every raw velocity in 0..127 and every scale with min and max *)
(* in 0..255, scale_value returns min + raw*(max-min)/127 rounded to the   *)
(* nearest integer: the output is within one half of the exact value.      *)
(* Raw 0 gives min, raw 127 gives max, the output lies between min and     *)
(* max, it does not decrease from one raw velocity to the next when        *)
(* min <= max and does not increase when max < min, and {min 0, max 200}   *)
(* maps raw 64 to 101.                                                     *)
(***************************************************************************)
C12_ScaleIsRoundedLinearMap ==
    probe.op = "scale_value" =>
        LET out   == Unwrap(probe.out)
            exact == 127 * probe.min + probe.input * (probe.max - probe.min)
            diff  == 127 * out - exact
            lo    == IF probe.min <= probe.max THEN probe.min ELSE probe.max
            hi    == IF probe.min <= probe.max THEN probe.max ELSE probe.min
        IN  /\ out \in 0..255
            /\ 2 * (IF diff >= 0 THEN diff ELSE -diff) <= 127
            /\ probe.input = 0 => out = probe.min
            /\ probe.input = 127 => out = probe.max
            /\ lo <= out /\ out <= hi
            /\ (IsSome(probe.prev) /\ probe.min <= probe.max) => Unwrap(probe.prev) <= out
            /\ (IsSome(probe.prev) /\ probe.max < probe.min) => Unwrap(probe.prev) >= out
            /\ (probe.min = 0 /\ probe.max = 200 /\ probe.input = 64) => out = 101

\* the scale {min 0, max 200} was swept up to raw 64, which it maps to 101,
\* above the output 99 of raw 63
C12_Witness ==
    /\ probe.op = "scale_value"
    /\ probe.min = 0 /\ probe.max = 200 /\ probe.input = 64
    /\ probe.out = Some(101)
    /\ probe.prev = Some(99)

(***************************************************************************)
(* C13.  Spawning is fire-and-forget: an event is processed without        *)
(* waiting for a child, the number of live children is not limited, and    *)
(* nothing but the debounce window of its own command holds a dispatch     *)
(* back.  At every rule that matches the event and carries a non-empty     *)
(* command, the command is spawned, the spawn being the last step of the   *)
(* rule, unless less than the rule's window has passed since the time      *)
(* recorded under the command.                                             *)
(* A failed spawn panics (C2) and ends the event: the commands of the      *)
(* later matching rules are held back by the panic, not by debounce.       *)
(***************************************************************************)
C13_FireAndForget ==
    \A i \in 1..Len(Rules) :
        (last.result # "none" /\ Accepts(Rules[i]) /\ HasCommand(Rules[i])) =>
            /\ i \in Visits
            /\ LET e == last.trace[i]
               IN  \/ /\ Dispatched(e)
                      /\ e.steps[Len(e.steps)] = "spawn"
                   \/ /\ e.command = "debounced"
                      /\ CommandOf(e) \in DOMAIN e.pre
                      /\ e.at - e.pre[CommandOf(e)] < Unwrap(e.window)

(***************************************************************************)
(* C14.  When the debounce check suppresses a command (its entry exists    *)
(* and less than the rule's window has elapsed since it), the whole        *)
(* debounce state is left as it was, the command's own timestamp included, *)
(* and nothing is spawned for the rule; an event all of whose commands     *)
(* are suppressed leaves the debounce state it was given.                  *)
(***************************************************************************)
C14_SuppressionChangesNothing ==
    /\ \A k \in Visits :
        LET e == last.trace[k]
        IN  /\ (/\ e.matched
                /\ HasCommand(Rules[e.rule])
                /\ CommandOf(e) \in DOMAIN e.pre
                /\ e.at - e.pre[CommandOf(e)] < get_debounce_duration(Rules[e.rule]))
               => e.command = "debounced"
            /\ e.command = "debounced" =>
                  /\ e.post = e.pre
                  /\ e.post[CommandOf(e)] = e.pre[CommandOf(e)]
                  /\ e.argv = <<>>
                  /\ e.env = None
    /\ (TraceChained /\ \A k \in Visits : ~Dispatched(last.trace[k])) =>
          debounce_state = last.before

\* an event found two commands recorded, had both of them suppressed, and
\* dispatched nothing
C14_Witness ==
    /\ Cardinality(DOMAIN last.before) = 2
    /\ Cardinality({k \in Visits : last.trace[k].command = "debounced"}) = 2
    /\ \A k \in Visits : ~Dispatched(last.trace[k])
    /\ last.start > 0

\* the window section 3 of the specification gives a rule: its
\* options.velocity.debounce when all three are present, 200 ms otherwise
ConfiguredWindow(rule) ==
    IF /\ IsSome(rule.options)
       /\ IsSome(Unwrap(rule.options).velocity)
       /\ IsSome(Unwrap(Unwrap(rule.options).velocity).debounce)
    THEN Unwrap(Unwrap(Unwrap(rule.options).velocity).debounce)
    ELSE 200

\* the greatest element of a non-empty set of times
Latest(S) == CHOOSE m \in S : \A x \in S : x <= m

\* the times of the accepted dispatches of visit k's command, by any rule,
\* before visit k: in earlier events (the history the event started from)
\* and at the earlier rules of the event
PriorDispatches(k) ==
    LET c == CommandOf(last.trace[k])
    IN  {Unwrap(last.history[i].at) :
            i \in {j \in 1..Len(Rules) : /\ HasCommand(Rules[j])
                                         /\ Unwrap(Rules[j].command) = c
                                         /\ IsSome(last.history[j].at)}}
        \cup {last.trace[j].at :
                j \in {j \in 1..(k - 1) : /\ Dispatched(last.trace[j])
                                          /\ CommandOf(last.trace[j]) = c}}

(***************************************************************************)
(* C15.  Debounce is a fixed window timed from the previous accepted       *)
(* dispatch of the command.  For every event and every rule with window W  *)
(* that matches it and carries a non-empty command: with no accepted       *)
(* dispatch before it, or when at least W has passed since the last        *)
(* accepted one, the command is dispatched, however often it was           *)
(* suppressed in between; an accepted dispatch is at least W after the     *)
(* last accepted dispatch of the command and at least W after the last     *)
(* accepted dispatch by the same rule.                                     *)
(* A failed spawn panics (C2) and ends the event: a later matching rule    *)
(* whose window has long passed is not dispatched.                         *)
(***************************************************************************)
C15_FixedWindow ==
    \A i \in 1..Len(Rules) :
        (last.result # "none" /\ Accepts(Rules[i]) /\ HasCommand(Rules[i])) =>
            /\ i \in Visits
            /\ LET e     == last.trace[i]
                   W     == ConfiguredWindow(Rules[i])
                   prior == PriorDispatches(i)
                   mine  == last.history[i].at
               IN  /\ Checked(e)
                   /\ prior = {} => Dispatched(e)
                   /\ (prior # {} /\ e.at - Latest(prior) >= W) => Dispatched(e)
                   /\ (prior # {} /\ Dispatched(e)) => e.at - Latest(prior) >= W
                   /\ (IsSome(mine) /\ Dispatched(e)) => e.at - Unwrap(mine) >= W

\* no step removes a key of the debounce state or moves its time back
EntriesOnlyAdvance ==
    \A c \in DOMAIN debounce_state :
        /\ c \in DOMAIN debounce_state'
        /\ debounce_state'[c] >= debounce_state[c]

\* an accepted dispatch leaves the time of its check under its command, with
\* or without an earlier entry, and keeps every other entry; when the spawn
\* then fails the time is already in the map the callback leaves behind
DispatchRecordsNow ==
    \A k \in Visits :
        LET e == last.trace[k]
        IN  /\ \A c \in DOMAIN e.pre : c \in DOMAIN e.post /\ e.post[c] >= e.pre[c]
            /\ Dispatched(e) =>
                  /\ CommandOf(e) \in DOMAIN e.post
                  /\ e.post[CommandOf(e)] = e.at
            /\ e.command = "spawn_failed" =>
                  /\ k = Len(last.trace)
                  /\ CommandOf(e) \in DOMAIN debounce_state
                  /\ debounce_state[CommandOf(e)] = e.at

(***************************************************************************)
(* C16.  For every command key the recorded time never decreases and no    *)
(* entry is ever removed; every accepted dispatch records the current time *)
(* under the command, also when no entry existed, and it does so before    *)
(* the spawn is attempted: the time is recorded even when the spawn fails. *)
(***************************************************************************)
C16_EntriesOnlyAdvance ==
    /\ []DispatchRecordsNow
    /\ [][EntriesOnlyAdvance]_vars

\* the spawn of a command that had no entry failed, next to the entry of
\* another command: the new entry is in the map and the other one is kept
C16_Witness ==
    \E k \in Visits :
        LET e == last.trace[k]
        IN  /\ e.command = "spawn_failed"
            /\ CommandOf(e) \notin DOMAIN e.pre
            /\ e.pre # EmptyMap
            /\ DOMAIN debounce_state = DOMAIN e.pre \cup {CommandOf(e)}
            /\ debounce_state[CommandOf(e)] = e.at

\* two consecutive invocations that both dispatched a command arrived at
\* least the later rule's window apart
ConsecutiveArrivals ==
    last' # last =>
        \A k1 \in 1..Len(last.trace), k2 \in 1..Len(last'.trace) :
            LET e1 == last.trace[k1]
                e2 == last'.trace[k2]
            IN  (/\ Dispatched(e1)
                 /\ Dispatched(e2)
                 /\ Unwrap(Rules[e1.rule].command) = Unwrap(Rules[e2.rule].command))
                => last'.start - last.start >= Unwrap(e2.window)

ConsecutiveInvocations ==
    last' # last =>
        /\ last'.before = debounce_state
        /\ \A k1 \in 1..Len(last.trace), k2 \in 1..Len(last'.trace) :
            LET e1 == last.trace[k1]
                e2 == last'.trace[k2]
            IN  (/\ Dispatched(e1)
                 /\ Dispatched(e2)
                 /\ Unwrap(Rules[e1.rule].command) = Unwrap(Rules[e2.rule].command))
                => e2.at - e1.at >= Unwrap(e2.window)

C18_WindowOfTheRule ==
    \A k \in Visits :
        LET e == last.trace[k]
            W == ConfiguredWindow(Rules[e.rule])
        IN  Checked(e) =>
                /\ e.window = Some(W)
                /\ e.command = "debounced" <=>
                      (CommandOf(e) \in DOMAIN e.pre /\ e.at - e.pre[CommandOf(e)] < W)
                /\ W = 0 => Dispatched(e)

\* a rule with a configured window of 0 is dispatched at the very instant
\* recorded in its command's entry
C18_Witness ==
    \E k \in Visits :
        LET e == last.trace[k]
        IN  /\ e.command = "spawned"
            /\ e.window = Some(0)
            /\ CommandOf(e) \in DOMAIN e.pre
            /\ e.pre[CommandOf(e)] = e.at

\* visits k1 < k2 of one event: k1 dispatched a command, k2 is a matching
\* rule with the same command, and no rule between them dispatched it
NextCheckOfSameCommand(k1, k2) ==
    /\ k1 < k2
    /\ Dispatched(last.trace[k1])
    /\ last.trace[k2].matched
    /\ HasCommand(Rules[last.trace[k2].rule])
    /\ CommandOf(last.trace[k2]) = CommandOf(last.trace[k1])
    /\ \A k \in (k1 + 1)..(k2 - 1) :
          ~(Dispatched(last.trace[k]) /\ CommandOf(last.trace[k]) = CommandOf(last.trace[k1]))

(***************************************************************************)
(* C19, as stated.  Within one event, when several matching rules carry    *)
(* the same non-empty command and each has a positive window, the command  *)
(* is spawned at most once: once a rule has dispatched it, every later     *)
(* such rule of the event is suppressed.                                   *)
(* The later rule reads the clock again (main.rs:185): when its own window *)
(* has passed since the first rule's dispatch, it dispatches too.          *)
(***************************************************************************)
C19_OncePerEvent ==
    \A k1 \in Visits, k2 \in Visits :
        (/\ NextCheckOfSameCommand(k1, k2)
         /\ get_debounce_duration(Rules[last.trace[k1].rule]) > 0
         /\ get_debounce_duration(Rules[last.trace[k2].rule]) > 0)
        => last.trace[k2].command = "debounced"

(***************************************************************************)
(* C19, amended.  Within one event, the first rule that passes the check   *)
(* records its time under the command, and every later matching rule with  *)
(* that command checks its own window against that shared time, read at    *)
(* the moment of its own check: it is suppressed exactly when less than    *)
(* its window has passed since, so the command is spawned once when no     *)
(* later rule's window has passed by the time of its check.                *)
(***************************************************************************)
C19_OncePerEventWithinTheWindows ==
    /\ \A k1 \in Visits, k2 \in Visits :
        NextCheckOfSameCommand(k1, k2) =>
            LET e1 == last.trace[k1]
                e2 == last.trace[k2]
            IN  /\ Checked(e2)
                /\ e1.post[CommandOf(e1)] = e1.at
                /\ e2.pre[CommandOf(e2)] = e1.at
                /\ e2.window = Some(get_debounce_duration(Rules[e2.rule]))
                /\ e2.command = "debounced" <=> e2.at - e1.at < Unwrap(e2.window)
    /\ \A k1 \in Visits :
        (/\ Dispatched(last.trace[k1])
         /\ \A k2 \in Visits :
               (/\ k1 < k2
                /\ last.trace[k2].matched
                /\ HasCommand(Rules[last.trace[k2].rule])
                /\ CommandOf(last.trace[k2]) = CommandOf(last.trace[k1]))
               => last.trace[k2].at - last.trace[k1].at
                     < get_debounce_duration(Rules[last.trace[k2].rule]))
        => \A k2 \in Visits :
              (k1 < k2 /\ Dispatched(last.trace[k2]))
              => CommandOf(last.trace[k2]) # CommandOf(last.trace[k1])

\* one event: a rule dispatched a command that had no entry, and a later
\* rule with the same command and a different positive window was suppressed
\* by the time the first rule recorded
C19_Witness ==
    \E k1 \in Visits, k2 \in Visits :
        /\ NextCheckOfSameCommand(k1, k2)
        /\ CommandOf(last.trace[k1]) \notin DOMAIN last.trace[k1].pre
        /\ last.trace[k2].command = "debounced"
        /\ Unwrap(last.trace[k1].window) > 0
        /\ Unwrap(last.trace[k2].window) > 0
        /\ last.trace[k1].window # last.trace[k2].window

\* how often a step occurs among the steps of a visit
Occurrences(steps, step) == Cardinality({n \in 1..Len(steps) : steps[n] = step})

(***************************************************************************)
(* C20.  Keymap playback is never debounced and precedes the command of    *)
(* the same rule: for every event and every rule with a keymap that        *)
(* matches it, the keymap is evaluated exactly once, as the first step of  *)
(* the rule, before the debounce check, the insert and the spawn, also     *)
(* when the command is suppressed by debounce, is empty or is absent; a    *)
(* rule that does not match, or has no keymap, evaluates none.             *)
(* A failed spawn panics (C2) and ends the event: the keymap of a later    *)
(* matching rule is not evaluated at all.                                  *)
(***************************************************************************)
C20_KeymapFirstAndNeverDebounced ==
    /\ \A i \in 1..Len(Rules) :
          (last.result # "none" /\ Accepts(Rules[i]) /\ IsSome(Rules[i].keymap)) =>
              /\ i \in Visits
              /\ LET e == last.trace[i]
                 IN  /\ e.keymap \in {"played", "error"}
                     /\ Occurrences(e.steps, "keymap") = 1
                     /\ e.steps[1] = "keymap"
                     /\ \A n \in 2..Len(e.steps) :
                           e.steps[n] \in {"check", "insert", "spawn"}
    /\ \A k \in Visits :
          LET e    == last.trace[k]
              rule == Rules[e.rule]
          IN  /\ (~e.matched \/ ~IsSome(rule.keymap)) =>
                    /\ e.keymap = "none"
                    /\ Occurrences(e.steps, "keymap") = 0
              /\ Checked(e) => Occurrences(e.steps, "check") = 1
              /\ Dispatched(e) => Occurrences(e.steps, "spawn") = 1

====
